---- MODULE Spec2Model ----
(***************************************************************************)
(* State-machine model of src/glb_compressor.py: the GLBCompressorApp      *)
(* window (loaded filepath, file label, log area, compression slider and   *)
(* its label, progress bar, compress button), the DragAndDropArea widget,  *)
(* and the worker threads that compress_file starts on                     *)
(* perform_compression.                                                    *)
(*                                                                         *)
(* Text is a sequence of strings: a literal of the source is one element,  *)
(* a path or a formatted number is one element per character, and an       *)
(* f-string is the concatenation of its parts.                             *)
(*                                                                         *)
(* Every step is one statement that reads or writes the shared state: a    *)
(* worker thread advances one statement of perform_compression or of       *)
(* update_progress per step, the GUI thread one statement of the handler   *)
(* it is in, and the steps of all threads interleave in every order.       *)
(***************************************************************************)
EXTENDS Integers, Sequences, FiniteSets, TLC

VARIABLES
    filepath,                 \* self.filepath (Unset: the attribute does not exist)
    file_label,               \* self.file_label text
    log_area,                 \* self.log_area: the appended lines, in order
    compression_slider,       \* self.compression_slider value
    slider_label,             \* self.slider_label text
    progress_bar,             \* self.progress_bar value
    compress_button_enabled,  \* self.compress_button enabled flag
    drag_drop_parent,         \* self.drag_drop_area.parentWidget()
    gui,                      \* where the GUI thread is: idle or inside a handler
    threads,                  \* the threads started by compress_file, in start order
    fs,                       \* the files on disk: path -> content
    uncaught                  \* exceptions that escaped a GUI handler, in order

vars == <<filepath, file_label, log_area, compression_slider, slider_label,
          progress_bar, compress_button_enabled, drag_drop_parent, gui,
          threads, fs, uncaught>>

-----------------------------------------------------------------------------
(* Bounds of the model. *)

\* The statements the GUI thread executes in its handlers, the slider's
\* apart: 3 for a file load (lines 135-137), 3 for a Compress click that
\* starts a thread (lines 144, 148, 150), 1 for a rejected drop (line 52),
\* for About (line 173) and for a Compress click that stops at line 144.
MaxGuiSteps == 9

-----------------------------------------------------------------------------
(* Program constants. *)

SliderMin == 10
SliderMax == 100
SliderInit == 50
ProgressInit == 0
ProgressLoading == 10
ProgressSaving == 90
ProgressComplete == 100

-----------------------------------------------------------------------------
(* Text helpers. *)

Unset == <<"<no attribute>">>
NoText == <<>>

Max(S) == CHOOSE x \in S : \A y \in S : y <= x

\* str.endswith
EndsWith(s, suffix) ==
    /\ Len(s) >= Len(suffix)
    /\ SubSeq(s, Len(s) - Len(suffix) + 1, Len(s)) = suffix

\* os.path.basename: what follows the last "/"
Basename(p) ==
    LET slashes == {i \in 1..Len(p) : p[i] = "/"}
        cut == IF slashes = {} THEN 0 ELSE Max(slashes)
    IN  SubSeq(p, cut + 1, Len(p))

\* str.rstrip("/")
RECURSIVE RStripSlash(_)
RStripSlash(s) ==
    IF s # <<>> /\ s[Len(s)] = "/" THEN RStripSlash(SubSeq(s, 1, Len(s) - 1))
    ELSE s

\* os.path.dirname: the path up to the last "/", without its trailing
\* slashes unless it consists of slashes only
Dirname(p) ==
    LET slashes == {i \in 1..Len(p) : p[i] = "/"}
        cut == IF slashes = {} THEN 0 ELSE Max(slashes)
        head == SubSeq(p, 1, cut)
    IN  IF head # <<>> /\ (\E i \in 1..Len(head) : head[i] # "/")
        THEN RStripSlash(head)
        ELSE head

DigitChars == <<"0", "1", "2", "3", "4", "5", "6", "7", "8", "9">>

\* str(int) of a non-negative integer, as the f-string formats {value}
RECURSIVE FormatInt(_)
FormatInt(n) ==
    IF n < 10 THEN <<DigitChars[n + 1]>>
    ELSE FormatInt(n \div 10) \o <<DigitChars[(n % 10) + 1]>>

-----------------------------------------------------------------------------
(* The texts the program shows. *)

GlbSuffix == <<".", "g", "l", "b">>

NoFileLoadedLabel == <<"No file loaded.">>
LoadedFileText(path) == <<"Loaded file: ">> \o Basename(path)
SliderLabelText(value) == <<"Compression Level: ">> \o FormatInt(value) \o <<"%">>
InvalidFileTypeMsg == <<"Invalid file type. Only .glb files are supported.">>
NoGlbLoadedMsg == <<"No GLB file loaded to compress.">>
LoadingMsg == <<"Loading GLB file...">>
SavingMsg == <<"Saving compressed file...">>
CompleteMsg == <<"Compression complete.">>
SavedMsg(output_path) == <<"Compressed file saved: ">> \o output_path
FailedMsg(e) == <<"Compression failed: ">> \o e
AboutMsg ==
    <<"GLB Compressor: Drag and drop GLB files, adjust compression, and save compressed files.">>

-----------------------------------------------------------------------------
(* The inputs of the model: paths, dropped URLs, slider positions. *)

PathA == <<"d", "/", "a", ".", "g", "l", "b">>
PathC == <<"c", ".", "g", "l", "b">>
PathTxt == <<"n", ".", "t", "x", "t">>
OutO == <<"o", ".", "g", "l", "b">>
OutR == <<"r", "/", "o", ".", "g", "l", "b">>

AllPaths == {PathA, PathC, PathTxt, OutO, OutR}

\* what QFileDialog.getOpenFileName returns (NoText: the dialog was cancelled)
OpenDialogResults == {NoText, PathA, PathC}

\* what QFileDialog.getSaveFileName returns (NoText: the dialog was cancelled)
SaveDialogResults == {NoText, OutO, OutR}

Url(scheme, path) == [scheme |-> scheme, path |-> path]

\* the URL lists of the drops
DropInputs ==
    { <<>>,
      <<Url("file", PathC)>>,
      <<Url("file", PathA), Url("file", PathTxt)>>,
      <<Url("file", PathTxt), Url("file", PathA)>>,
      <<Url("http", PathA)>> }

\* the positions a slider change asks for
SliderInputs == {0, SliderMin, SliderMax, SliderMax + 1}

\* directories a file can be created in
WritableDirs == {NoText, <<"d">>}

-----------------------------------------------------------------------------
(* Files and the 3D library. *)

Missing == [magic |-> "", scene |-> "", bytes |-> 0]

GlbFile(scene, bytes) == [magic |-> "glTF", scene |-> scene, bytes |-> bytes]

InitialFiles ==
    [p \in AllPaths |->
        IF p = PathA THEN GlbFile("A", 48)
        ELSE IF p = PathC THEN [magic |-> "XXXX", scene |-> "C", bytes |-> 20]
        ELSE IF p = PathTxt THEN [magic |-> "text", scene |-> "", bytes |-> 5]
        ELSE Missing]

\* trimesh.load(path, force="scene") succeeds on a GLB container
LoadSucceeds(files, path) == path \in DOMAIN files /\ files[path].magic = "glTF"

\* the scene trimesh.load returns
LoadedScene(files, path) == files[path].scene

\* the text of the exception trimesh.load raises
LoadErrorText(path) == <<"cannot load ">> \o path

\* scene.export(path) succeeds when the file can be created
ExportSucceeds(path) == Dirname(path) \in WritableDirs

\* the bytes scene.export writes for a scene
ExportedBytes(scene) == IF scene = "A" THEN 40 ELSE 28

\* the file scene.export(path) writes
ExportedFile(scene) == GlbFile(scene, ExportedBytes(scene))

\* the text of the exception scene.export raises
ExportErrorText(path) == <<"cannot write ">> \o path

-----------------------------------------------------------------------------
(* Widgets. *)

App == "GLBCompressorApp"
MainWidget == "main_widget"

\* QLayout.addWidget(w): w becomes a child of the widget the layout is set on
QLayout_addWidget(layout_widget, widget_parent) == layout_widget

\* the parent of drag_drop_area once __init__ has run: constructed with
\* parent=self, then added to the layout of main_widget
DragDropParentAfterInit == QLayout_addWidget(MainWidget, App)

\* only GLBCompressorApp defines set_status_message
HasSetStatusMessage(widget) == widget = App

\* QSlider.setValue without the range set by setRange(10, 100)
QSlider_setValue_unclamped(v) == v

\* QSlider.setValue / a drag of the handle: the value is kept in the range
QSlider_setValue(v) ==
    IF v < SliderMin THEN SliderMin ELSE IF v > SliderMax THEN SliderMax ELSE v

\* QUrl.toLocalFile: the path of a file URL, empty for any other URL
ToLocalFile(url) == IF url.scheme = "file" THEN url.path ELSE NoText

-----------------------------------------------------------------------------
(* Threads. *)

NoParent == "None"

\* the GUI thread between two events
Idle == [pc |-> "idle", path |-> NoText]

\* the GUI thread inside a handler, before the statement at line pc
At(pc, path) == [pc |-> pc, path |-> path]

Event(ev, val, text) == [ev |-> ev, val |-> val, text |-> text]

\* a thread as threading.Thread(target=self.perform_compression,
\* args=(output_file,)).start() creates it; message and ret are the argument
\* and the return line of its call of update_progress; start_filepath, level
\* and trace record what was loaded and chosen at the start and what the
\* thread did
NewThread(output_file) ==
    [pc |-> "L154", output_path |-> output_file, scene |-> "", exc |-> NoText,
     message |-> NoText, ret |-> "",
     start_filepath |-> filepath, level |-> compression_slider, trace |-> <<>>]

ThreadIds == 1..Len(threads)

Running(t) == threads[t].pc # "done"

RECURSIVE CountEvents(_, _)
CountEvents(trace, ev) ==
    IF trace = <<>> THEN 0
    ELSE CountEvents(Tail(trace), ev) + (IF Head(trace).ev = ev THEN 1 ELSE 0)

RECURSIVE WorkerLines(_)
WorkerLines(ts) ==
    IF ts = <<>> THEN 0
    ELSE CountEvents(Head(ts).trace, "log") + WorkerLines(Tail(ts))

\* the lines of the log that load_glb_file appended
RECURSIVE LoadLines(_)
LoadLines(lines) ==
    IF lines = <<>> THEN 0
    ELSE LoadLines(Tail(lines))
             + (IF Head(Head(lines)) = "Loaded file: " THEN 1 ELSE 0)

\* the statements the GUI thread has executed in the handlers that left a
\* mark (a log line, an exception, a thread), with the file load it is in
GuiSteps ==
    (Len(log_area) - WorkerLines(threads)) + 2 * LoadLines(log_area)
        + Len(uncaught) + 3 * Len(threads)
        + (IF gui.pc \in {"L136", "L137"} THEN 3 ELSE 0)

-----------------------------------------------------------------------------
Init ==
    /\ filepath = Unset
    /\ file_label = NoFileLoadedLabel
    /\ log_area = <<>>
    /\ compression_slider = QSlider_setValue(SliderInit)
    /\ slider_label = <<"Compression Level: ", "5", "0", "%">>
    /\ progress_bar = ProgressInit
    /\ compress_button_enabled = TRUE
    /\ drag_drop_parent = DragDropParentAfterInit
    /\ gui = Idle
    /\ threads = <<>>
    /\ fs = InitialFiles
    /\ uncaught = <<>>

-----------------------------------------------------------------------------
(* Handlers of the GUI thread. An event is handled when the thread is      *)
(* idle; a handler of several statements goes on at L136, L137, L140,      *)
(* L148.                                                                   *)

set_status_message(message) == log_area' = Append(log_area, message)

\* self.filepath = filepath
load_glb_file(path) ==
    /\ GuiSteps + 3 <= MaxGuiSteps
    /\ filepath' = path
    /\ gui' = At("L136", path)
    /\ UNCHANGED <<file_label, log_area, compression_slider, slider_label,
                   progress_bar, compress_button_enabled, drag_drop_parent,
                   threads, fs, uncaught>>

\* self.file_label.setText(f"Loaded file: {os.path.basename(filepath)}")
L136 ==
    /\ gui.pc = "L136"
    /\ file_label' = LoadedFileText(gui.path)
    /\ gui' = At("L137", gui.path)
    /\ UNCHANGED <<filepath, log_area, compression_slider, slider_label,
                   progress_bar, compress_button_enabled, drag_drop_parent,
                   threads, fs, uncaught>>

\* self.set_status_message(f"Loaded file: {os.path.basename(filepath)}")
L137 ==
    /\ gui.pc = "L137"
    /\ set_status_message(LoadedFileText(gui.path))
    /\ gui' = Idle
    /\ UNCHANGED <<filepath, file_label, compression_slider, slider_label,
                   progress_bar, compress_button_enabled, drag_drop_parent,
                   threads, fs, uncaught>>

open_file_dialog(file_path) ==
    /\ gui = Idle
    /\ IF file_path # NoText THEN load_glb_file(file_path) ELSE UNCHANGED vars

\* dragEnterEvent accepts a drag only if it carries URLs
dragEnterEvent(urls) == urls # <<>>

dropEvent(urls) ==
    /\ gui = Idle
    /\ dragEnterEvent(urls)
    /\ IF urls # <<>>
       THEN LET file_path == ToLocalFile(urls[1])
            IN  IF EndsWith(file_path, GlbSuffix)
                THEN load_glb_file(file_path)
                ELSE IF drag_drop_parent # NoParent
                THEN /\ GuiSteps + 1 <= MaxGuiSteps
                     /\ IF HasSetStatusMessage(drag_drop_parent)
                        THEN /\ set_status_message(InvalidFileTypeMsg)
                             /\ UNCHANGED uncaught
                        ELSE /\ uncaught' = Append(uncaught,
                                    <<"AttributeError", "set_status_message">>)
                             /\ UNCHANGED log_area
                     /\ UNCHANGED <<filepath, file_label, compression_slider,
                                    slider_label, progress_bar,
                                    compress_button_enabled, drag_drop_parent,
                                    gui, threads, fs>>
                ELSE UNCHANGED vars
       ELSE UNCHANGED vars

\* the user moves the slider: the value changes and, when it did, the
\* valueChanged signal enters its slot update_slider_label; the GUI thread
\* is inside the slider's change until the slot has returned
slider_move(v) ==
    /\ gui = Idle
    /\ compression_slider' = QSlider_setValue(v)
    /\ gui' = IF compression_slider' # compression_slider
              THEN At("L140", NoText) ELSE Idle
    /\ UNCHANGED <<filepath, file_label, log_area, slider_label, progress_bar,
                   compress_button_enabled, drag_drop_parent, threads, fs,
                   uncaught>>

\* value = self.compression_slider.value()
\* self.slider_label.setText(f"Compression Level: {value}%")
update_slider_label ==
    /\ gui.pc = "L140"
    /\ LET value == compression_slider
       IN  slider_label' = SliderLabelText(value)
    /\ gui' = Idle
    /\ UNCHANGED <<filepath, file_label, log_area, compression_slider,
                   progress_bar, compress_button_enabled, drag_drop_parent,
                   threads, fs, uncaught>>

\* if not self.filepath: ... return; otherwise the save dialog opens
compress_file ==
    /\ gui = Idle
    /\ compress_button_enabled
    /\ IF filepath = Unset
       THEN /\ GuiSteps + 1 <= MaxGuiSteps
            /\ uncaught' = Append(uncaught, <<"AttributeError", "filepath">>)
            /\ UNCHANGED <<filepath, file_label, log_area, compression_slider,
                           slider_label, progress_bar, compress_button_enabled,
                           drag_drop_parent, gui, threads, fs>>
       ELSE IF filepath = NoText
       THEN /\ GuiSteps + 1 <= MaxGuiSteps
            /\ set_status_message(NoGlbLoadedMsg)
            /\ UNCHANGED <<filepath, file_label, compression_slider,
                           slider_label, progress_bar, compress_button_enabled,
                           drag_drop_parent, gui, threads, fs, uncaught>>
       ELSE /\ GuiSteps + 3 <= MaxGuiSteps
            /\ gui' = At("L148", NoText)
            /\ UNCHANGED <<filepath, file_label, log_area, compression_slider,
                           slider_label, progress_bar, compress_button_enabled,
                           drag_drop_parent, threads, fs, uncaught>>

\* output_file, _ = QFileDialog.getSaveFileName(...) returns;
\* if output_file: threading.Thread(...).start()
L148(output_file) ==
    /\ gui.pc = "L148"
    /\ gui' = Idle
    /\ threads' = IF output_file # NoText
                  THEN Append(threads, NewThread(output_file))
                  ELSE threads
    /\ UNCHANGED <<filepath, file_label, log_area, compression_slider,
                   slider_label, progress_bar, compress_button_enabled,
                   drag_drop_parent, fs, uncaught>>

show_about_dialog ==
    /\ gui = Idle
    /\ GuiSteps + 1 <= MaxGuiSteps
    /\ log_area' = Append(log_area, AboutMsg)
    /\ UNCHANGED <<filepath, file_label, compression_slider, slider_label,
                   progress_bar, compress_button_enabled, drag_drop_parent,
                   gui, threads, fs, uncaught>>

-----------------------------------------------------------------------------
(* perform_compression and update_progress, one statement per step of      *)
(* thread t.                                                               *)

Advance(t, pc, scene, exc, events) ==
    threads' = [threads EXCEPT ![t] =
                    [@ EXCEPT !.pc = pc, !.scene = scene, !.exc = exc,
                              !.trace = @ \o events]]

\* a call self.update_progress(value, message) from line pc, up to
\* self.progress_bar.setValue(value) (line 166); line 167 follows, then ret
update_progress(t, pc, value, message, ret) ==
    /\ threads[t].pc = pc
    /\ progress_bar' = value
    /\ threads' = [threads EXCEPT ![t] =
                       [@ EXCEPT !.pc = "L167", !.message = message,
                                 !.ret = ret,
                                 !.trace = @ \o <<Event("progress", value, NoText)>>]]
    /\ UNCHANGED <<filepath, file_label, log_area, compression_slider,
                   slider_label, compress_button_enabled, drag_drop_parent,
                   gui, fs, uncaught>>

\* self.log_area.append(message), and the return from update_progress
L167(t) ==
    /\ threads[t].pc = "L167"
    /\ log_area' = Append(log_area, threads[t].message)
    /\ Advance(t, threads[t].ret, threads[t].scene, threads[t].exc,
               <<Event("log", 0, threads[t].message)>>)
    /\ UNCHANGED <<filepath, file_label, compression_slider, slider_label,
                   progress_bar, compress_button_enabled, drag_drop_parent,
                   gui, fs, uncaught>>

\* self.update_progress(10, "Loading GLB file...")
L154(t) == update_progress(t, "L154", ProgressLoading, LoadingMsg, "L155")

\* line 155 with the exception of trimesh.load swallowed: the run goes on
L155_swallow(t) ==
    /\ threads[t].pc = "L155"
    /\ IF LoadSucceeds(fs, filepath)
       THEN Advance(t, "L156", LoadedScene(fs, filepath), threads[t].exc,
                    <<Event("load_ok", 0, filepath)>>)
       ELSE Advance(t, "L156", threads[t].scene, threads[t].exc,
                    <<Event("load_raise", 0, filepath)>>)
    /\ UNCHANGED <<filepath, file_label, log_area, compression_slider,
                   slider_label, progress_bar, compress_button_enabled,
                   drag_drop_parent, gui, fs, uncaught>>

\* scene = trimesh.load(self.filepath, force="scene")
L155(t) ==
    /\ threads[t].pc = "L155"
    /\ IF LoadSucceeds(fs, filepath)
       THEN Advance(t, "L156", LoadedScene(fs, filepath), threads[t].exc,
                    <<Event("load_ok", 0, filepath)>>)
       ELSE Advance(t, "L161", threads[t].scene, LoadErrorText(filepath),
                    <<Event("load_raise", 0, filepath)>>)
    /\ UNCHANGED <<filepath, file_label, log_area, compression_slider,
                   slider_label, progress_bar, compress_button_enabled,
                   drag_drop_parent, gui, fs, uncaught>>

\* line 156 reporting completion before the export has run
L156_complete(t) ==
    update_progress(t, "L156", ProgressComplete, CompleteMsg, "L157")

\* self.update_progress(90, "Saving compressed file...")
L156(t) == update_progress(t, "L156", ProgressSaving, SavingMsg, "L157")

\* line 157 with an export whose size grows with the slider level
L157_bylevel(t) ==
    /\ threads[t].pc = "L157"
    /\ LET out == threads[t].output_path
           written == GlbFile(threads[t].scene,
                              ExportedBytes(threads[t].scene) + threads[t].level)
       IN  IF ExportSucceeds(out)
           THEN /\ fs' = [fs EXCEPT ![out] = written]
                /\ Advance(t, "L158", threads[t].scene, threads[t].exc,
                           <<Event("export_ok", written.bytes, out)>>)
           ELSE /\ UNCHANGED fs
                /\ Advance(t, "L161", threads[t].scene, ExportErrorText(out),
                           <<Event("export_raise", 0, out)>>)
    /\ UNCHANGED <<filepath, file_label, log_area, compression_slider,
                   slider_label, progress_bar, compress_button_enabled,
                   drag_drop_parent, gui, uncaught>>

\* scene.export(output_path)
L157(t) ==
    /\ threads[t].pc = "L157"
    /\ LET out == threads[t].output_path
           written == ExportedFile(threads[t].scene)
       IN  IF ExportSucceeds(out)
           THEN /\ fs' = [fs EXCEPT ![out] = written]
                /\ Advance(t, "L158", threads[t].scene, threads[t].exc,
                           <<Event("export_ok", written.bytes, out)>>)
           ELSE /\ UNCHANGED fs
                /\ Advance(t, "L161", threads[t].scene, ExportErrorText(out),
                           <<Event("export_raise", 0, out)>>)
    /\ UNCHANGED <<filepath, file_label, log_area, compression_slider,
                   slider_label, progress_bar, compress_button_enabled,
                   drag_drop_parent, gui, uncaught>>

\* self.update_progress(100, "Compression complete.")
L158(t) == update_progress(t, "L158", ProgressComplete, CompleteMsg, "L159")

\* self.set_status_message(f"Compressed file saved: {output_path}")
L159(t) ==
    /\ threads[t].pc = "L159"
    /\ set_status_message(SavedMsg(threads[t].output_path))
    /\ Advance(t, "L163", threads[t].scene, threads[t].exc,
               <<Event("log", 0, SavedMsg(threads[t].output_path))>>)
    /\ UNCHANGED <<filepath, file_label, compression_slider, slider_label,
                   progress_bar, compress_button_enabled, drag_drop_parent,
                   gui, fs, uncaught>>

\* line 161 logging a fixed text instead of the exception's
L161_generic(t) ==
    /\ threads[t].pc = "L161"
    /\ set_status_message(<<"Compression failed">>)
    /\ Advance(t, "L163", threads[t].scene, threads[t].exc,
               <<Event("log", 0, <<"Compression failed">>)>>)
    /\ UNCHANGED <<filepath, file_label, compression_slider, slider_label,
                   progress_bar, compress_button_enabled, drag_drop_parent,
                   gui, fs, uncaught>>

\* except Exception as e: self.set_status_message(f"Compression failed: {e}")
L161(t) ==
    /\ threads[t].pc = "L161"
    /\ set_status_message(FailedMsg(threads[t].exc))
    /\ Advance(t, "L163", threads[t].scene, threads[t].exc,
               <<Event("log", 0, FailedMsg(threads[t].exc))>>)
    /\ UNCHANGED <<filepath, file_label, compression_slider, slider_label,
                   progress_bar, compress_button_enabled, drag_drop_parent,
                   gui, fs, uncaught>>

\* finally: self.compress_button.setEnabled(True)
L163(t) ==
    /\ threads[t].pc = "L163"
    /\ compress_button_enabled' = TRUE
    /\ Advance(t, "done", threads[t].scene, threads[t].exc, <<>>)
    /\ UNCHANGED <<filepath, file_label, log_area, compression_slider,
                   slider_label, progress_bar, drag_drop_parent, gui, fs,
                   uncaught>>

-----------------------------------------------------------------------------
Next ==
    \/ \E file_path \in OpenDialogResults : open_file_dialog(file_path)
    \/ \E urls \in DropInputs : dropEvent(urls)
    \/ L136
    \/ L137
    \/ \E v \in SliderInputs : slider_move(v)
    \/ update_slider_label
    \/ compress_file
    \/ \E output_file \in SaveDialogResults : L148(output_file)
    \/ show_about_dialog
    \/ \E t \in ThreadIds : L154(t)
    \/ \E t \in ThreadIds : L155(t)
    \/ \E t \in ThreadIds : L156(t)
    \/ \E t \in ThreadIds : L157(t)
    \/ \E t \in ThreadIds : L158(t)
    \/ \E t \in ThreadIds : L159(t)
    \/ \E t \in ThreadIds : L161(t)
    \/ \E t \in ThreadIds : L163(t)
    \/ \E t \in ThreadIds : L167(t)

Spec == Init /\ [][Next]_vars

-----------------------------------------------------------------------------
(* What a thread did, read off its trace. *)

Trace(t) == threads[t].trace

Did(t, ev) == \E i \in 1..Len(Trace(t)) : Trace(t)[i].ev = ev

Reported(t, value) ==
    \E i \in 1..Len(Trace(t)) : Trace(t)[i] = Event("progress", value, NoText)

Logged(t, message) ==
    \E i \in 1..Len(Trace(t)) : Trace(t)[i] = Event("log", 0, message)

LoggedPrefix(t, prefix) ==
    \E i \in 1..Len(Trace(t)) :
        /\ Trace(t)[i].ev = "log"
        /\ Trace(t)[i].text # <<>>
        /\ Head(Trace(t)[i].text) = prefix

\* the path the thread passed to trimesh.load
LoadedPath(t) ==
    LET i == CHOOSE i \in 1..Len(Trace(t)) : Trace(t)[i].ev \in {"load_ok", "load_raise"}
    IN  Trace(t)[i].text

\* the number of bytes the thread's export wrote
WrittenBytes(t) ==
    LET i == CHOOSE i \in 1..Len(Trace(t)) : Trace(t)[i].ev = "export_ok"
    IN  Trace(t)[i].val

Raised(t) == Did(t, "load_raise") \/ Did(t, "export_raise")

\* the text of the exception the thread's load or export raised
RaisedText(t) ==
    LET i == CHOOSE i \in 1..Len(Trace(t)) : Trace(t)[i].ev \in {"load_raise", "export_raise"}
    IN  IF Trace(t)[i].ev = "load_raise"
        THEN LoadErrorText(Trace(t)[i].text)
        ELSE ExportErrorText(Trace(t)[i].text)

\* the lines the thread appended to the log
LinesOf(t) == SelectSeq(Trace(t), LAMBDA e : e.ev = "log")

InLog(message) == \E i \in 1..Len(log_area) : log_area[i] = message

(* Reading a number back from the text of a label. *)

DigitValue(c) == CHOOSE d \in 0..9 : DigitChars[d + 1] = c

IsDigit(c) == \E d \in 0..9 : DigitChars[d + 1] = c

\* the number a sequence of decimal digits denotes
RECURSIVE ParseInt(_)
ParseInt(s) ==
    IF s = <<>> THEN 0
    ELSE 10 * ParseInt(SubSeq(s, 1, Len(s) - 1)) + DigitValue(s[Len(s)])

-----------------------------------------------------------------------------
\* C1: every run loads the file that was loaded when compress_file started
\* it, and exports to the output path chosen for it, whatever is loaded or
\* started while it is in progress.
C1_RunUsesItsOwnInputAndOutput ==
    \A t \in ThreadIds :
        \A i \in 1..Len(Trace(t)) :
            /\ Trace(t)[i].ev \in {"load_ok", "load_raise"}
                   => Trace(t)[i].text = threads[t].start_filepath
            /\ Trace(t)[i].ev \in {"export_ok", "export_raise"}
                   => Trace(t)[i].text = threads[t].output_path

\* C2: a run whose trimesh.load raised never calls scene.export, never
\* reports progress 90 or 100, and never logs "Compressed file saved".
C2_FailedLoadWritesNothing ==
    \A t \in ThreadIds :
        Did(t, "load_raise") =>
            /\ ~Did(t, "export_ok")
            /\ ~Did(t, "export_raise")
            /\ ~Reported(t, ProgressSaving)
            /\ ~Reported(t, ProgressComplete)
            /\ ~LoggedPrefix(t, "Compressed file saved: ")

\* C2 witness: a run whose load raised has finished.
C2_Witness ==
    \E t \in ThreadIds : Did(t, "load_raise") /\ threads[t].pc = "done"

\* C3: of two runs that exported the same input file, the one started at
\* the higher slider level wrote no more bytes than the other.
C3_SizeNonIncreasingInLevel ==
    \A t1 \in ThreadIds : \A t2 \in ThreadIds :
        ( /\ Did(t1, "export_ok") /\ Did(t2, "export_ok")
          /\ LoadedPath(t1) = LoadedPath(t2)
          /\ threads[t1].level <= threads[t2].level )
        => WrittenBytes(t2) <= WrittenBytes(t1)

\* C3 witness: two runs of the same input at different levels have both
\* written their output.
C3_Witness ==
    \E t1 \in ThreadIds : \E t2 \in ThreadIds :
        /\ Did(t1, "export_ok") /\ Did(t2, "export_ok")
        /\ LoadedPath(t1) = LoadedPath(t2)
        /\ threads[t1].level < threads[t2].level

\* C4: of two runs that exported the same input file, one started at level
\* 100 and one at level 10, the level-100 run wrote strictly fewer bytes.
C4_Level100StrictlySmaller ==
    \A t1 \in ThreadIds : \A t2 \in ThreadIds :
        ( /\ Did(t1, "export_ok") /\ Did(t2, "export_ok")
          /\ LoadedPath(t1) = LoadedPath(t2)
          /\ threads[t1].level = SliderMin
          /\ threads[t2].level = SliderMax )
        => WrittenBytes(t2) < WrittenBytes(t1)

\* C5: in every state the slider value is an integer in [10,100], 50 in
\* the initial state, and the slider label reads "Compression Level: <n>%"
\* for an integer n in [10,100]; after any slider changes and other UI
\* events, that is whenever the GUI thread is not inside a change of the
\* slider (between the new value and the return of update_slider_label),
\* n is exactly the slider value.
C5_SliderInRangeAndLabelled ==
    /\ compression_slider \in SliderMin..SliderMax
    /\ (Init => compression_slider = SliderInit)
    /\ Len(slider_label) >= 3
    /\ Head(slider_label) = "Compression Level: "
    /\ slider_label[Len(slider_label)] = "%"
    /\ LET digits == SubSeq(slider_label, 2, Len(slider_label) - 1)
       IN  /\ \A i \in 1..Len(digits) : IsDigit(digits[i])
           /\ digits[1] # "0"
           /\ ParseInt(digits) \in SliderMin..SliderMax
           /\ gui.pc # "L140" => ParseInt(digits) = compression_slider

\* C5 witness: the slider was moved to its maximum while a thread was
\* running, update_slider_label has returned and the label shows 100.
C5_Witness ==
    /\ gui.pc # "L140"
    /\ \E t \in ThreadIds : Running(t)
    /\ compression_slider = SliderMax
    /\ slider_label = <<"Compression Level: ", "1", "0", "0", "%">>

\* C6: a run in which trimesh.load or scene.export raised logs nothing but
\* "Compression failed: <the error's text>", once, and never logs
\* "Compression complete." or "Compressed file saved".
C6_FailureReportsReason ==
    \A t \in ThreadIds :
        Raised(t) =>
            /\ ~Logged(t, CompleteMsg)
            /\ ~LoggedPrefix(t, "Compressed file saved: ")
            /\ Len(SelectSeq(LinesOf(t),
                     LAMBDA e : Head(e.text) = "Compression failed: ")) <= 1
            /\ threads[t].pc \in {"L163", "done"} =>
                   /\ Len(SelectSeq(LinesOf(t),
                            LAMBDA e : e.text = FailedMsg(RaisedText(t)))) = 1
                   /\ Trace(t)[Len(Trace(t))].text = FailedMsg(RaisedText(t))
                   /\ InLog(FailedMsg(RaisedText(t)))

\* C6 witness: a run whose export raised has finished.
C6_Witness ==
    \E t \in ThreadIds : Did(t, "export_raise") /\ threads[t].pc = "done"

\* C7: a run reports 10 ("Loading GLB file...") before its load, 90
\* ("Saving compressed file...") only after its load returned and before
\* its export, and 100 ("Compression complete.") only after its export
\* returned; the progress bar shows 100 only if some run's output was
\* written.
C7_ProgressFollowsCheckpoints ==
    /\ \A t \in ThreadIds :
        \A i \in 1..Len(Trace(t)) :
            LET e == Trace(t)[i]
                Before(ev) == \E j \in 1..(i - 1) : Trace(t)[j].ev = ev
                BeforeReport(v) ==
                    \E j \in 1..(i - 1) : Trace(t)[j] = Event("progress", v, NoText)
            IN  /\ e.ev \in {"load_ok", "load_raise"} =>
                       BeforeReport(ProgressLoading)
                /\ e.ev \in {"export_ok", "export_raise"} =>
                       Before("load_ok") /\ BeforeReport(ProgressSaving)
                /\ e.ev = "progress" =>
                       /\ e.val \in {ProgressLoading, ProgressSaving, ProgressComplete}
                       /\ LET line == IF e.val = ProgressLoading THEN LoadingMsg
                                       ELSE IF e.val = ProgressSaving THEN SavingMsg
                                       ELSE CompleteMsg
                          IN  IF i < Len(Trace(t))
                              THEN Trace(t)[i + 1] = Event("log", 0, line)
                              ELSE /\ threads[t].pc = "L167"
                                   /\ threads[t].message = line
                       /\ e.val = ProgressLoading =>
                              ~Before("load_ok") /\ ~Before("load_raise")
                       /\ e.val = ProgressSaving =>
                              /\ Before("load_ok")
                              /\ ~Before("export_ok") /\ ~Before("export_raise")
                       /\ e.val = ProgressComplete =>
                              /\ Before("export_ok")
                              /\ fs[threads[t].output_path].magic = "glTF"
    /\ progress_bar = ProgressComplete =>
           \E t \in ThreadIds : Did(t, "export_ok")

\* C7 witness: a run has reported 100 and finished.
C7_Witness ==
    \E t \in ThreadIds : Reported(t, ProgressComplete) /\ threads[t].pc = "done"

\* C8: a Compress click while no file has been loaded appends
\* "No GLB file loaded to compress." to the log and changes nothing else:
\* no thread, no progress change, no error.
C8_ClickWithoutFileOnlyLogs ==
    [][ (filepath = Unset /\ compress_file) =>
            /\ log_area' = Append(log_area, NoGlbLoadedMsg)
            /\ UNCHANGED <<filepath, file_label, compression_slider,
                           slider_label, progress_bar,
                           compress_button_enabled, drag_drop_parent,
                           gui, threads, fs, uncaught>> ]_vars

\* C9: a drop whose first URL is not a path ending in ".glb" leaves the
\* loaded filepath and the file label unchanged and appends "Invalid file
\* type. Only .glb files are supported." to the application's log.
C9_RejectedDropLogsInvalidType ==
    [][ \A urls \in DropInputs :
            ( /\ dropEvent(urls)
              /\ ~EndsWith(ToLocalFile(urls[1]), GlbSuffix) ) =>
                /\ filepath' = filepath
                /\ file_label' = file_label
                /\ log_area' = Append(log_area, InvalidFileTypeMsg) ]_vars

\* C10: at most one compression run is in progress at any time.
C10_AtMostOneRunInProgress ==
    Cardinality({t \in ThreadIds : Running(t)}) <= 1

====
